---- MODULE Spec2Model ----
(***************************************************************************)
(* Model of the zk proof cost estimators: estimate_cost and main of        *)
(* app.py, and main of compare_schemes.py.                                 *)
(*                                                                         *)
(* Numbers.  Python's int is unbounded and its float is a binary double.   *)
(* Both are modelled by exact arithmetic: a natural number is a sequence   *)
(* of base-1000 limbs, least significant first (TLC's own integers are 32  *)
(* bits wide), and a float is an exact fraction of such a numerator over a *)
(* list of small positive factors.  round(x, k) is modelled by what it     *)
(* does, rounding to the nearest multiple of 10^-k; where the exact value  *)
(* lies half way between two multiples the double that Python holds lies   *)
(* on either side, so the direction of each tie is an input of the call    *)
(* (roundUp, the fields whose tie goes up).                                *)
(* A rounded value is held as the natural number of its 10^-k units.       *)
(***************************************************************************)
EXTENDS Integers, Sequences, FiniteSets, TLC

----------------------------------------------------------------------------
(* Unbounded naturals (Python int): base-1000 limbs, least significant first *)

Limb == 10 ^ 3

RECURSIVE BigNorm(_)
BigNorm(b) ==
    IF b = <<>> THEN <<>>
    ELSE IF b[Len(b)] = 0 THEN BigNorm(SubSeq(b, 1, Len(b) - 1))
    ELSE b

RECURSIVE BigFromInt(_)
BigFromInt(n) ==
    IF n = 0 THEN <<>> ELSE <<n % Limb>> \o BigFromInt(n \div Limb)

RECURSIVE BigMulCarry(_, _, _)
BigMulCarry(b, m, carry) ==
    IF b = <<>> THEN BigFromInt(carry)
    ELSE LET t == b[1] * m + carry
         IN  <<t % Limb>> \o BigMulCarry(Tail(b), m, t \div Limb)

(* b * m, for a small factor 0 <= m <= 2000000 *)
BigMul(b, m) == BigNorm(BigMulCarry(b, m, 0))

RECURSIVE BigAddCarry(_, _, _)
BigAddCarry(a, b, carry) ==
    IF a = <<>> /\ b = <<>> THEN BigFromInt(carry)
    ELSE LET x == IF a = <<>> THEN 0 ELSE a[1]
             y == IF b = <<>> THEN 0 ELSE b[1]
             t == x + y + carry
         IN  <<t % Limb>> \o BigAddCarry(IF a = <<>> THEN <<>> ELSE Tail(a),
                                         IF b = <<>> THEN <<>> ELSE Tail(b),
                                         t \div Limb)

BigAdd(a, b) == BigNorm(BigAddCarry(a, b, 0))

(* a * b *)
RECURSIVE BigTimes(_, _)
BigTimes(a, b) ==
    IF b = <<>> THEN <<>>
    ELSE BigAdd(BigMul(a, b[1]), BigNorm(<<0>> \o BigTimes(a, Tail(b))))

(* b - 1, for b > 0 *)
RECURSIVE BigPred(_)
BigPred(b) ==
    IF b[1] > 0 THEN BigNorm(<<b[1] - 1>> \o Tail(b))
    ELSE <<Limb - 1>> \o BigPred(Tail(b))

(* floor(b / m) and b mod m, for a small divisor 0 < m <= 2000000 *)
RECURSIVE BigDivRem(_, _)
BigDivRem(b, m) ==
    IF b = <<>> THEN [q |-> <<>>, r |-> 0]
    ELSE LET hi == BigDivRem(Tail(b), m)
             t  == hi.r * Limb + b[1]
         IN  [q |-> <<t \div m>> \o hi.q, r |-> t % m]

BigDiv(b, m) == BigNorm(BigDivRem(b, m).q)

RECURSIVE BigLeqAt(_, _, _)
BigLeqAt(a, b, i) ==
    IF i = 0 THEN TRUE
    ELSE IF a[i] # b[i] THEN a[i] < b[i]
    ELSE BigLeqAt(a, b, i - 1)

(* a <= b, both normalised *)
BigLeq(a, b) ==
    IF Len(a) # Len(b) THEN Len(a) < Len(b) ELSE BigLeqAt(a, b, Len(a))

BigLess(a, b) == BigLeq(a, b) /\ a # b

RECURSIVE BigMulAll(_, _)
BigMulAll(b, factors) ==
    IF factors = <<>> THEN b
    ELSE BigMulAll(BigMul(b, factors[1]), Tail(factors))

RECURSIVE BigDivAll(_, _)
BigDivAll(b, factors) ==
    IF factors = <<>> THEN b
    ELSE BigDivAll(BigDiv(b, factors[1]), Tail(factors))

RECURSIVE Tens(_)
Tens(k) == IF k = 0 THEN <<>> ELSE <<10>> \o Tens(k - 1)

----------------------------------------------------------------------------
(* Non-negative floats as exact fractions: num / (product of den).  A      *)
(* float literal or float input is a pair [n, d] of small integers, n / d. *)

Q(n, d) == [n |-> n, d |-> d]

Frac(q) == [num |-> BigFromInt(q.n), den |-> <<q.d>>]

FracOfInt(n) == [num |-> BigFromInt(n), den |-> <<1>>]

(* x + y *)
FracAdd(x, y) ==
    [num |-> BigAdd(BigMulAll(x.num, y.den), BigMulAll(y.num, x.den)),
     den |-> x.den \o y.den]

(* x * y *)
FracMul(x, y) == [num |-> BigTimes(x.num, y.num), den |-> x.den \o y.den]

(* x / q, for a float or int q = n / d > 0 *)
FracOver(x, q) == [num |-> BigMul(x.num, q.d), den |-> x.den \o <<q.n>>]

(* x <= y *)
FracLeq(x, y) == BigLeq(BigMulAll(x.num, y.den), BigMulAll(y.num, x.den))

FracLess(x, y) == ~FracLeq(y, x)

FracMin(x, y) == IF FracLeq(x, y) THEN x ELSE y

FracMax(x, y) == IF FracLeq(y, x) THEN x ELSE y

(* round(x, k): the nearest multiple of 10^-k, as a number of 10^-k units;  *)
(* floor((2 N + D - e) / (2 D)) with N = num * 10^k, D = product of den and *)
(* e = 0 when a tie goes up, 1 when it goes down.                           *)
round(x, k, tieUp) ==
    LET N == BigMulAll(x.num, Tens(k))
        D == BigMulAll(<<1>>, x.den)
        A == BigAdd(BigAdd(N, N), D)
    IN  BigDivAll(IF tieUp THEN A ELSE BigPred(A), <<2>> \o x.den)

----------------------------------------------------------------------------
(* app.py: the profile table, the security table and estimate_cost *)

SYSTEMS ==
    [aztec |->
        [key |-> "aztec", name |-> "Aztec-style zk SNARK System",
         family |-> "zk-snark",
         description |-> "Privacy-focused zk rollup proving for encrypted state and contracts.",
         base_ms_per_proof |-> Q(420, 1), base_usd_per_proof |-> Q(18, 100),
         scaling_factor |-> Q(85, 100)],
     zama |->
        [key |-> "zama", name |-> "Zama-style FHE + Proof Hybrid",
         family |-> "fhe-hybrid",
         description |-> "FHE-heavy design where zk proofs attest to encrypted compute pipelines.",
         base_ms_per_proof |-> Q(780, 1), base_usd_per_proof |-> Q(35, 100),
         scaling_factor |-> Q(72, 100)],
     soundness |->
        [key |-> "soundness", name |-> "Soundness-first Minimal Circuit System",
         family |-> "verified-zk",
         description |-> "Formally specified circuits tuned for clarity and soundness over raw speed.",
         base_ms_per_proof |-> Q(500, 1), base_usd_per_proof |-> Q(22, 100),
         scaling_factor |-> Q(90, 100)]]

(* mutant: the digits of the 256-bit multiplier transposed *)
SECURITY_LEVELS_transposed ==
    (128 :> Q(10, 10)) @@ (192 :> Q(135, 100)) @@ (256 :> Q(107, 100))

SECURITY_LEVELS ==
    (128 :> Q(10, 10)) @@ (192 :> Q(135, 100)) @@ (256 :> Q(170, 100))

(* mutant: the upper bound forgotten *)
clamp_noUpper(x, lo, hi) == FracMax(lo, x)

clamp(x, lo, hi) == FracMax(lo, FracMin(hi, x))

(* The four checks of estimate_cost, in order: the message of the          *)
(* ValueError raised, or NoError.                                          *)
NoError == ""

(* mutant: the first check off by one *)
InvalidParameter_offByOne(tx_count, batch_size, security_bits, hardware_scale) ==
    IF tx_count <= 1 THEN "tx_count must be positive."
    ELSE IF batch_size <= 0 THEN "batch_size must be positive."
    ELSE IF security_bits \notin DOMAIN SECURITY_LEVELS
         THEN "security_bits must be one of [128, 192, 256]."
    ELSE IF hardware_scale.n <= 0 THEN "hardware_scale must be > 0."
    ELSE NoError

InvalidParameter(tx_count, batch_size, security_bits, hardware_scale) ==
    IF tx_count <= 0 THEN "tx_count must be positive."
    ELSE IF batch_size <= 0 THEN "batch_size must be positive."
    ELSE IF security_bits \notin DOMAIN SECURITY_LEVELS
         THEN "security_bits must be one of [128, 192, 256]."
    ELSE IF hardware_scale.n <= 0 THEN "hardware_scale must be > 0."
    ELSE NoError

(* mutant: floor division *)
batches_floor(tx_count, batch_size) == tx_count \div batch_size

batches(tx_count, batch_size) == (tx_count + batch_size - 1) \div batch_size

(* mutant: the coefficient applied per 1,000 transactions *)
volume_factor_perThousand(system, tx_count) ==
    clamp(FracAdd(Frac(system.scaling_factor),
                  FracMul(FracOver(FracOfInt(tx_count), Q(1000, 1)),
                          Frac(Q(2, 100)))),
          Frac(Q(5, 10)), Frac(Q(125, 100)))

volume_factor(system, tx_count) ==
    clamp(FracAdd(Frac(system.scaling_factor),
                  FracMul(FracOver(FracOfInt(tx_count), Q(10000, 1)),
                          Frac(Q(2, 100)))),
          Frac(Q(5, 10)), Frac(Q(125, 100)))

(* mutant: multiplied by hardware_scale *)
per_proof_timesHardware(base, security_bits, hardware_scale, volume) ==
    FracMul(FracMul(FracMul(Frac(base), Frac(SECURITY_LEVELS[security_bits])),
                    Frac(hardware_scale)),
            volume)

per_proof(base, security_bits, hardware_scale, volume) ==
    FracMul(FracOver(FracMul(Frac(base), Frac(SECURITY_LEVELS[security_bits])),
                     hardware_scale),
            volume)

per_proof_ms(system, tx_count, security_bits, hardware_scale) ==
    per_proof(system.base_ms_per_proof, security_bits, hardware_scale,
              volume_factor(system, tx_count))

per_proof_usd(system, tx_count, security_bits, hardware_scale) ==
    per_proof(system.base_usd_per_proof, security_bits, hardware_scale,
              volume_factor(system, tx_count))

(* mutant: multiplied by the transaction count *)
total_perTransaction(per_proof_value, tx_count, batch_size) ==
    FracMul(per_proof_value, FracOfInt(tx_count))

total(per_proof_value, tx_count, batch_size) ==
    FracMul(per_proof_value, FracOfInt(batches(tx_count, batch_size)))

(* mutant: the divisor off by one *)
per_tx_offByOne(total_value, tx_count) == FracOver(total_value, Q(tx_count + 1, 1))

per_tx(total_value, tx_count) == FracOver(total_value, Q(tx_count, 1))

(* The dictionary estimate_cost returns for inputs that passed the checks *)
Summary(system, tx_count, batch_size, security_bits, hardware_scale, roundUp) ==
    LET ms  == per_proof_ms(system, tx_count, security_bits, hardware_scale)
        usd == per_proof_usd(system, tx_count, security_bits, hardware_scale)
        total_ms  == total(ms, tx_count, batch_size)
        total_usd == total(usd, tx_count, batch_size)
    IN  [system |-> system.key,
         systemName |-> system.name,
         family |-> system.family,
         description |-> system.description,
         securityBits |-> security_bits,
         txCount |-> tx_count,
         batchSize |-> batch_size,
         batches |-> batches(tx_count, batch_size),
         hardwareScale |-> hardware_scale,
         perProofMs |-> round(ms, 3, "perProofMs" \in roundUp),
         perProofUsd |-> round(usd, 6, "perProofUsd" \in roundUp),
         totalMs |-> round(total_ms, 3, "totalMs" \in roundUp),
         totalUsd |-> round(total_usd, 6, "totalUsd" \in roundUp),
         perTxMs |-> round(per_tx(total_ms, tx_count), 5, "perTxMs" \in roundUp),
         perTxUsd |-> round(per_tx(total_usd, tx_count), 8, "perTxUsd" \in roundUp),
         volumeFactor |-> round(volume_factor(system, tx_count), 4,
                                "volumeFactor" \in roundUp)]

NoSummary == <<>>

estimate_cost(system, tx_count, batch_size, security_bits, hardware_scale, roundUp) ==
    LET error == InvalidParameter(tx_count, batch_size, security_bits, hardware_scale)
    IN  IF error # NoError
        THEN [raised |-> "ValueError", message |-> error, summary |-> NoSummary]
        ELSE [raised |-> "", message |-> "",
              summary |-> Summary(system, tx_count, batch_size, security_bits,
                                  hardware_scale, roundUp)]

----------------------------------------------------------------------------
(* Inputs *)

MaxTx == 2

MaxBatch == 2

TxCounts == (-1 .. MaxTx) \cup {25, 5000, 300000}

BatchSizes == (-1 .. MaxBatch) \cup {512}

SecurityBits == {100, 128, 192, 256}

HardwareScales ==
    {Q(0 - 1, 1), Q(0, 1), Q(1, 2), Q(1, 1), Q(3, 1), Q(1000000, 1), Q(2000000, 1)}

RoundedFields ==
    {"perProofMs", "perProofUsd", "totalMs", "totalUsd", "perTxMs", "perTxUsd",
     "volumeFactor"}

Result(c) ==
    estimate_cost(SYSTEMS[c.system], c.tx_count, c.batch_size, c.security_bits,
                  c.hardware_scale, c.roundUp)

(* The rounded fields whose exact value is a tie for the arguments c *)
TiedFields(c) ==
    LET down == Result([c EXCEPT !.roundUp = {}])
        up   == Result([c EXCEPT !.roundUp = RoundedFields])
    IN  IF down.raised # "" THEN {}
        ELSE {f \in RoundedFields : down.summary[f] # up.summary[f]}

(* The calls with the arguments b: one for each way its ties can fall *)
TieChoices(b) == {[b EXCEPT !.roundUp = up] : up \in SUBSET TiedFields(b)}

Arguments ==
    [system : DOMAIN SYSTEMS, tx_count : TxCounts, batch_size : BatchSizes,
     security_bits : SecurityBits, hardware_scale : HardwareScales,
     roundUp : {{}}]

Calls == UNION {TieChoices(b) : b \in Arguments}

----------------------------------------------------------------------------
(* State *)

VARIABLES
    call,        \* the arguments of the estimate_cost call
    outcome,     \* what the call did: pending, raised or returned
    argv,        \* the command line of the running program
    pc,          \* the position of main
    stdout,      \* what main has printed, in order
    exitStatus,  \* the process's exit status, Running until it exits
    costs        \* compare_schemes: the two estimates main computed

vars == <<call, outcome, argv, pc, stdout, exitStatus, costs>>

Pending == [raised |-> "", message |-> "pending", summary |-> NoSummary]

NoCall == <<>>

NoArgv == <<>>

Running == 0 - 1

NoCosts == <<>>

(* A direct call of estimate_cost, as a library function *)
Init ==
    /\ call \in Calls
    /\ outcome = Pending
    /\ argv = NoArgv
    /\ pc = "call"
    /\ stdout = <<>>
    /\ exitStatus = Running
    /\ costs = NoCosts

EstimateRaises ==
    /\ pc = "call"
    /\ Result(call).raised # ""
    /\ outcome' = Result(call)
    /\ pc' = "raised"
    /\ UNCHANGED <<call, argv, stdout, exitStatus, costs>>

EstimateReturns ==
    /\ pc = "call"
    /\ Result(call).raised = ""
    /\ outcome' = Result(call)
    /\ pc' = "returned"
    /\ UNCHANGED <<call, argv, stdout, exitStatus, costs>>

Next == EstimateRaises \/ EstimateReturns

Spec == Init /\ [][Next]_vars

----------------------------------------------------------------------------
(* app.py: main.  The command line gives the arguments of the one call of  *)
(* estimate_cost and the --json flag.                                      *)

Argvs == [args : Calls, json : BOOLEAN]

InitMain ==
    /\ argv \in Argvs
    /\ call = NoCall
    /\ outcome = Pending
    /\ pc = "parse_args"
    /\ stdout = <<>>
    /\ exitStatus = Running
    /\ costs = NoCosts

(* parse_args: --security-bits is one of the choices *)
MainParseArgs ==
    /\ pc = "parse_args"
    /\ argv.args.security_bits \in DOMAIN SECURITY_LEVELS
    /\ call' = argv.args
    /\ pc' = "call"
    /\ UNCHANGED <<outcome, argv, stdout, exitStatus, costs>>

(* parse_args: argparse refuses a --security-bits outside the choices:     *)
(* usage on stderr, exit status 2                                          *)
MainUsageError ==
    /\ pc = "parse_args"
    /\ argv.args.security_bits \notin DOMAIN SECURITY_LEVELS
    /\ exitStatus' = 2
    /\ pc' = "exit"
    /\ UNCHANGED <<call, outcome, argv, stdout, costs>>

Printed(kind, text, summary) == [kind |-> kind, text |-> text, summary |-> summary]

(* mutant: the handler exits with status 0 *)
MainExcept_exitZero ==
    /\ pc = "raised"
    /\ stdout' = Append(stdout, Printed("error", outcome.message, NoSummary))
    /\ exitStatus' = 0
    /\ pc' = "exit"
    /\ UNCHANGED <<call, outcome, argv, costs>>

(* except ValueError: print the message, raise SystemExit(1) *)
MainExcept ==
    /\ pc = "raised"
    /\ stdout' = Append(stdout, Printed("error", outcome.message, NoSummary))
    /\ exitStatus' = 1
    /\ pc' = "exit"
    /\ UNCHANGED <<call, outcome, argv, costs>>

MainPrintJson ==
    /\ pc = "returned"
    /\ argv.json
    /\ stdout' = Append(stdout, Printed("json", "", outcome.summary))
    /\ exitStatus' = 0
    /\ pc' = "exit"
    /\ UNCHANGED <<call, outcome, argv, costs>>

MainPrintHuman ==
    /\ pc = "returned"
    /\ ~argv.json
    /\ stdout' = Append(stdout, Printed("human", "", outcome.summary))
    /\ exitStatus' = 0
    /\ pc' = "exit"
    /\ UNCHANGED <<call, outcome, argv, costs>>

NextMain ==
    \/ MainParseArgs
    \/ MainUsageError
    \/ EstimateRaises
    \/ EstimateReturns
    \/ MainExcept
    \/ MainPrintJson
    \/ MainPrintHuman

SpecMain == InitMain /\ [][NextMain]_vars

----------------------------------------------------------------------------
(* compare_schemes.py: estimate_cost and main *)

MaxProofs == 2

MaxGas == 2

CompareArgvs ==
    [num_proofs : 0 .. MaxProofs, gas_per_proof_a : 0 .. MaxGas,
     gas_per_proof_b : 0 .. MaxGas, gas_price_gwei : {Q(1, 2), Q(30, 1)},
     eth_price_usd : {Q(3200, 1)}]

(* 1e-9, gwei -> ETH *)
GweiInEth == [num |-> <<1>>, den |-> <<1000, 1000, 1000>>]

compare_estimate_cost(num_proofs, gas_per_proof, gas_price_gwei, eth_price_usd) ==
    LET total_gas == num_proofs * gas_per_proof
        total_eth == FracMul(FracMul(FracOfInt(total_gas), Frac(gas_price_gwei)),
                             GweiInEth)
        total_usd == FracMul(total_eth, Frac(eth_price_usd))
    IN  [total_gas |-> total_gas, total_eth |-> total_eth, total_usd |-> total_usd]

(* The verdict the last lines of main print for the two total costs *)
CompareVerdict(usd_a, usd_b) ==
    IF FracLess(usd_a, usd_b) THEN "  => Scheme B is more expensive."
    ELSE IF FracLess(usd_b, usd_a) THEN "  => Scheme B is cheaper."
    ELSE "  => Costs are equal."

InitCompare ==
    /\ argv \in CompareArgvs
    /\ call = NoCall
    /\ outcome = Pending
    /\ pc = "estimate"
    /\ stdout = <<>>
    /\ exitStatus = Running
    /\ costs = NoCosts

CompareEstimate ==
    /\ pc = "estimate"
    /\ costs' = [a |-> compare_estimate_cost(argv.num_proofs, argv.gas_per_proof_a,
                                             argv.gas_price_gwei, argv.eth_price_usd),
                 b |-> compare_estimate_cost(argv.num_proofs, argv.gas_per_proof_b,
                                             argv.gas_price_gwei, argv.eth_price_usd)]
    /\ pc' = "print_a"
    /\ UNCHANGED <<call, outcome, argv, stdout, exitStatus>>

ComparePrintA ==
    /\ pc = "print_a"
    /\ stdout' = Append(stdout, Printed("scheme_a", "Scheme A:", costs.a))
    /\ pc' = "print_b"
    /\ UNCHANGED <<call, outcome, argv, exitStatus, costs>>

ComparePrintBHeader ==
    /\ pc = "print_b"
    /\ stdout' = Append(stdout, Printed("scheme_b", "Scheme B:", NoSummary))
    /\ pc' = "print_b_gas"
    /\ UNCHANGED <<call, outcome, argv, exitStatus, costs>>

(* args.gas-per_proof_b reads the attribute gas, which the parsed          *)
(* arguments do not have: AttributeError, uncaught, exit status 1          *)
ComparePrintBGas ==
    /\ pc = "print_b_gas"
    /\ exitStatus' = 1
    /\ pc' = "exit"
    /\ UNCHANGED <<call, outcome, argv, stdout, costs>>

NextCompare ==
    \/ CompareEstimate
    \/ ComparePrintA
    \/ ComparePrintBHeader
    \/ ComparePrintBGas

SpecCompare == InitCompare /\ [][NextCompare]_vars

----------------------------------------------------------------------------
(* Properties of estimate_cost, checked under Spec *)

Big(n) == BigFromInt(n)

(* |a - b| <= t *)
Within(a, b, t) == BigLeq(a, BigAdd(b, t)) /\ BigLeq(b, BigAdd(a, t))

(* a and b agree to a relative tolerance of 10^-6, far coarser than the    *)
(* precision of a double (about 10^-16)                                    *)
Close(a, b) ==
    Within(BigMulAll(a, <<1000, 1000>>), BigMulAll(b, <<1000, 1000>>),
           IF BigLeq(a, b) THEN b ELSE a)

Invalid(c) ==
    \/ c.tx_count < 1
    \/ c.batch_size < 1
    \/ c.security_bits \notin {128, 192, 256}
    \/ c.hardware_scale.n * c.hardware_scale.d < 1

(* C1: a call with a non-positive tx_count, batch_size or hardware_scale,  *)
(* or with security_bits outside {128, 192, 256}, raises ValueError with a *)
(* message and returns nothing; a call with none of these raises no error  *)
(* and returns a summary.                                                  *)
C1_InvalidInputsRejected ==
    pc # "call" =>
        IF Invalid(call)
        THEN /\ pc = "raised"
             /\ outcome.raised = "ValueError"
             /\ outcome.message \notin {"", "pending"}
             /\ DOMAIN outcome.summary = {}
        ELSE /\ pc = "returned"
             /\ outcome.raised = ""
             /\ RoundedFields \subseteq DOMAIN outcome.summary

C1_Witness ==
    /\ pc = "raised"
    /\ call.security_bits = 100
    /\ call.tx_count > 0 /\ call.batch_size > 0 /\ call.hardware_scale.n > 0
    /\ outcome.message = "security_bits must be one of [128, 192, 256]."

(* C2: the batches field is the smallest integer b >= 1 with               *)
(* b * batch_size >= tx_count, that is ceil(tx_count / batch_size).        *)
C2_BatchesIsCeiling ==
    pc = "returned" =>
        LET b == outcome.summary.batches
        IN  /\ b >= 1
            /\ b * call.batch_size >= call.tx_count
            /\ (b - 1) * call.batch_size < call.tx_count

C2_Witness ==
    /\ pc = "returned"
    /\ call.tx_count = 5000 /\ call.batch_size = 512
    /\ outcome.summary.batches = 10

(* C3: the returned volumeFactor (in units of 10^-4) lies in [0.5, 1.25]. *)
C3_VolumeFactorBounded ==
    pc = "returned" =>
        /\ BigLeq(Big(5000), outcome.summary.volumeFactor)
        /\ BigLeq(outcome.summary.volumeFactor, Big(12500))

(* 0.85 + 30 * 0.02 = 1.45 is clamped to 1.25 *)
C3_Witness ==
    /\ pc = "returned"
    /\ call.system = "aztec" /\ call.tx_count = 300000
    /\ outcome.summary.volumeFactor = Big(12500)

(* The closed form in integers: the volume factor in units of 10^-6 *)
ClosedFormVolume(c) ==
    LET scaling == SYSTEMS[c.system].scaling_factor
        raw == scaling.n * (1000000 \div scaling.d) + 2 * c.tx_count
    IN  IF raw < 500000 THEN 500000 ELSE IF raw > 1250000 THEN 1250000 ELSE raw

(* C4: volumeFactor is clamp(scalingFactor + txCount/10000 * 0.02, 0.5,    *)
(* 1.25) and perProofMs is baseMs * multiplier / hardwareScale *           *)
(* volumeFactor, each to the nearest returned unit; and the aztec profile  *)
(* with txCount 5000, batchSize 512, 128 bits and hardwareScale 1.0 gives  *)
(* batches 10, volumeFactor 0.86, perProofMs 361.2, totalMs 3612.0 and     *)
(* perTxMs 0.7224.                                                         *)
C4_ClosedForm ==
    pc = "returned" =>
        LET sys == SYSTEMS[call.system]
            sec == SECURITY_LEVELS[call.security_bits]
            hw  == call.hardware_scale
            vol == ClosedFormVolume(call)
            num == BigMulAll(Big(vol), <<sys.base_ms_per_proof.n, sec.n, hw.d>>)
            den == BigMulAll(Big(1000000), <<sys.base_ms_per_proof.d, sec.d, hw.n>>)
            s   == outcome.summary
        IN  /\ Within(BigMul(s.volumeFactor, 200), Big(2 * vol), Big(100))
            /\ Within(BigTimes(BigMul(s.perProofMs, 2), den), BigMul(num, 2000), den)
            /\ (/\ call.system = "aztec" /\ call.tx_count = 5000
                /\ call.batch_size = 512 /\ call.security_bits = 128
                /\ hw = Q(1, 1))
               => /\ s.batches = 10
                  /\ s.volumeFactor = Big(8600)
                  /\ s.perProofMs = Big(361200)
                  /\ s.totalMs = Big(3612000)
                  /\ s.perTxMs = Big(72240)

C4_Witness ==
    /\ pc = "returned"
    /\ call.system = "aztec" /\ call.tx_count = 5000 /\ call.batch_size = 512
    /\ call.security_bits = 128 /\ call.hardware_scale = Q(1, 1)
    /\ outcome.summary.perProofMs = Big(361200)

(* |p * n - t| for the returned fields p, t and the integer n, doubled,    *)
(* is at most n + 1 units: p and t are each within half a unit of their    *)
(* unrounded values.                                                       *)
TotalWithinRounding(t, p, n) ==
    Within(BigMul(t, 2), BigMul(BigTimes(p, Big(n)), 2), Big(n + 1))

(* C5 as stated: totalMs = perProofMs * batches and totalUsd =             *)
(* perProofUsd * batches within floating-point tolerance.                  *)
C5_TotalsWithinFloatTolerance ==
    pc = "returned" =>
        LET s == outcome.summary
        IN  /\ Close(s.totalMs, BigTimes(s.perProofMs, Big(s.batches)))
            /\ Close(s.totalUsd, BigTimes(s.perProofUsd, Big(s.batches)))

(* C5, amended: the returned fields agree up to their rounding,            *)
(* |totalMs - perProofMs * batches| <= 0.0005 * (batches + 1) and          *)
(* |totalUsd - perProofUsd * batches| <= 0.0000005 * (batches + 1).        *)
C5_TotalsWithinRounding ==
    pc = "returned" =>
        LET s == outcome.summary
        IN  /\ TotalWithinRounding(s.totalMs, s.perProofMs, s.batches)
            /\ TotalWithinRounding(s.totalUsd, s.perProofUsd, s.batches)

(* the rounding of perProofMs shows in the total *)
C5_Witness ==
    /\ pc = "returned"
    /\ outcome.summary.batches > 1
    /\ outcome.summary.totalMs #
           BigTimes(outcome.summary.perProofMs, Big(outcome.summary.batches))

(* |x * n - 100 * t| for the returned per-transaction field x (two more    *)
(* decimals than the total t), doubled, is at most n + 100.                *)
PerTxWithinRounding(x, t, n) ==
    Within(BigMul(BigTimes(x, Big(n)), 2), BigMul(t, 200), Big(n + 100))

(* C6 as stated: perTxMs = totalMs / txCount and perTxUsd = totalUsd /     *)
(* txCount within tolerance.                                               *)
C6_PerTxWithinFloatTolerance ==
    pc = "returned" =>
        LET s == outcome.summary
        IN  /\ Close(BigTimes(s.perTxMs, Big(s.txCount)), BigMul(s.totalMs, 100))
            /\ Close(BigTimes(s.perTxUsd, Big(s.txCount)), BigMul(s.totalUsd, 100))

(* C6, amended: the returned fields agree up to their rounding,            *)
(* |perTxMs - totalMs / txCount| <= 0.000005 + 0.0005 / txCount and        *)
(* |perTxUsd - totalUsd / txCount| <= 0.000000005 + 0.0000005 / txCount.   *)
C6_PerTxWithinRounding ==
    pc = "returned" =>
        LET s == outcome.summary
        IN  /\ PerTxWithinRounding(s.perTxMs, s.totalMs, s.txCount)
            /\ PerTxWithinRounding(s.perTxUsd, s.totalUsd, s.txCount)

C6_Witness ==
    /\ pc = "returned"
    /\ outcome.summary.txCount > 1
    /\ BigTimes(outcome.summary.perTxMs, Big(outcome.summary.txCount)) #
           BigMul(outcome.summary.totalMs, 100)

HwLess(a, b) == a.n * b.d < b.n * a.d

(* The summaries of the calls that differ from the current one only in a   *)
(* larger hardware_scale                                                   *)
FasterHardware ==
    {Result(c2).summary :
        c2 \in UNION {TieChoices([call EXCEPT !.hardware_scale = h, !.roundUp = {}]) :
                        h \in {h \in HardwareScales : HwLess(call.hardware_scale, h)}}}

(* C7 as stated: a larger hardware_scale returns a strictly smaller        *)
(* perProofMs and perProofUsd.                                             *)
C7_StrictlyDecreasingInHardware ==
    pc = "returned" =>
        \A s2 \in FasterHardware :
            /\ BigLess(s2.perProofMs, outcome.summary.perProofMs)
            /\ BigLess(s2.perProofUsd, outcome.summary.perProofUsd)

(* C7, amended: a larger hardware_scale returns a perProofMs and a         *)
(* perProofUsd that are not larger.                                        *)
C7_NonIncreasingInHardware ==
    pc = "returned" =>
        \A s2 \in FasterHardware :
            /\ BigLeq(s2.perProofMs, outcome.summary.perProofMs)
            /\ BigLeq(s2.perProofUsd, outcome.summary.perProofUsd)

C7_Witness ==
    /\ pc = "returned"
    /\ call.hardware_scale = Q(1, 2)
    /\ \E s2 \in FasterHardware :
          /\ s2.hardwareScale = Q(3, 1)
          /\ BigLess(s2.perProofMs, outcome.summary.perProofMs)

(* The summaries of the calls that differ from the current one only in a   *)
(* larger security_bits                                                    *)
HigherSecurity ==
    {Result(c2).summary :
        c2 \in UNION {TieChoices([call EXCEPT !.security_bits = b, !.roundUp = {}]) :
                        b \in {b \in {128, 192, 256} : b > call.security_bits}}}

(* C8 as stated: raising security_bits 128 -> 192 -> 256 returns a         *)
(* strictly larger perProofMs and perProofUsd.                             *)
C8_StrictlyIncreasingInSecurity ==
    pc = "returned" =>
        \A s2 \in HigherSecurity :
            /\ BigLess(outcome.summary.perProofMs, s2.perProofMs)
            /\ BigLess(outcome.summary.perProofUsd, s2.perProofUsd)

(* C8, amended: raising security_bits 128 -> 192 -> 256 returns a          *)
(* perProofMs and a perProofUsd that are not smaller.                      *)
C8_NonDecreasingInSecurity ==
    pc = "returned" =>
        \A s2 \in HigherSecurity :
            /\ BigLeq(outcome.summary.perProofMs, s2.perProofMs)
            /\ BigLeq(outcome.summary.perProofUsd, s2.perProofUsd)

C8_Witness ==
    /\ pc = "returned"
    /\ call.security_bits = 128
    /\ \E s2 \in HigherSecurity :
          /\ s2.securityBits = 256
          /\ BigLess(outcome.summary.perProofMs, s2.perProofMs)

----------------------------------------------------------------------------
(* Properties of main of app.py, checked under SpecMain *)

Estimates == {i \in DOMAIN stdout : stdout[i].kind \in {"json", "human"}}

(* C9: when estimate_cost raised, main goes on to its handler, prints the  *)
(* message and nothing else and exits with a non-zero status; an estimate  *)
(* is on stdout only once estimate_cost has returned, it is that summary   *)
(* in the rendering --json asks for, and it is the only one.               *)
C9_MainErrorHandling ==
    /\ outcome.raised = "ValueError" => Estimates = {}
    /\ pc = "raised" => ENABLED MainExcept
    /\ (pc = "exit" /\ outcome.raised = "ValueError") =>
          /\ exitStatus \notin {0, Running}
          /\ stdout = <<Printed("error", outcome.message, NoSummary)>>
    /\ \A i \in Estimates :
          /\ outcome.raised = ""
          /\ DOMAIN outcome.summary # {}
          /\ stdout[i].summary = outcome.summary
          /\ stdout[i].kind = IF argv.json THEN "json" ELSE "human"
          /\ Estimates = {i}
    /\ (pc = "exit" /\ exitStatus = 0) => Cardinality(Estimates) = 1

C9_Witness ==
    /\ pc = "exit"
    /\ outcome.raised = "ValueError"
    /\ exitStatus = 1
    /\ Len(stdout) = 1

----------------------------------------------------------------------------
(* Properties of main of compare_schemes.py, checked under SpecCompare *)

(* C10: a run that has ended has printed the Scheme A section, the Scheme  *)
(* B section, the comparison and the one verdict that the sign of          *)
(* total_usd(B) - total_usd(A) selects, and has ended without an error.    *)
C10_CompareReportComplete ==
    pc = "exit" =>
        /\ exitStatus = 0
        /\ Len(stdout) = 4
        /\ stdout[1].kind = "scheme_a"
        /\ stdout[2].kind = "scheme_b"
        /\ stdout[3].kind = "comparison"
        /\ stdout[4].kind = "verdict"
        /\ stdout[4].text = CompareVerdict(costs.a.total_usd, costs.b.total_usd)

====
